---- MODULE Spec2Model ----
(***************************************************************************)
(* A model of ecs-manage: the retrying remote-call wrapper (helpers.rs,    *)
(* main.rs), the inventory reader and diff (services.rs, main.rs), the     *)
(* cloning of a service from a template (create_service) and the compare   *)
(* and sync commands of main.rs.                                           *)
(*                                                                         *)
(* Rust's Option<T> is modelled as a sequence of length at most one:       *)
(* None is << >> and Some(x) is <<x>>.  A Vec<T> is a sequence.            *)
(***************************************************************************)
EXTENDS Integers, Sequences, FiniteSets, TLC

VARIABLES
    \* ---- retry_log run in isolation (helpers.rs:13-22) ----
    op_script,      \* the operation: op_script[k] is what its k-th invocation returns
    retry_pc,       \* "running" while inside retry_notify's loop, then "returned"
    attempts,       \* number of invocations of the operation so far
    notified,       \* the errors handed to the notify closure (one log line each)
    elapsed,        \* time since backoff.reset(), in ticks of 300 000 ms
    retry_result,   \* what retry_log returned (None while running)
    \* ---- a command of main.rs, or one function called on its own ----
    command,              \* "info", "compare", "sync", or the function under test
    source_cluster,       \* arguments of the command
    destination_cluster,
    role_suffix,
    modification,         \* update: Some(desired count to set), else None
    pc,                   \* where the command is: "list", "describe", "create", "done"
    reads,                \* clusters describe_services has still to read (head: current)
    token,                \* list_services: the continuation token of the next request
    service_arns,         \* list_services: the identifiers accumulated so far
    next_arn,             \* describe_services: index of the next identifier to describe
    described,            \* describe_services: the descriptors collected so far
    inventories,          \* the results of the describe_services calls completed
    pages,                \* the ListServices responses received by the current listing
    retries,              \* transient failures of the remote call in progress so far
    last_response,        \* the response (for a lookup: the outcome) handled last
    diff,                 \* Some(source-only descriptors) once computed
    source_only,          \* sync: the source-only descriptors still to create
    from_service,         \* the descriptor the latest mutating request was built from
    requests,             \* the remote requests sent, in order
    stdout,               \* what the command printed
    result,               \* None while running, then Some(Ok / Err / Panic)
    to_update,            \* update: the described services still to update
    audited,              \* audit_service: the service under audit (None if none)
    to_audit,             \* audit command: the described services still to audit
    container_definitions, \* service_ecr_images: the container definitions to look up
    images,               \* service_ecr_images: the lookup results pushed so far
    target_groups,        \* service_target_groups: the lookup results pushed so far
    next_lookup,          \* index of the next container definition / binding
    \* ---- a map_err closure applied to one error ----
    operation,            \* the remote operation whose closure it is (None if none)
    remote_error,         \* the error the client returned (None if none)
    classified,           \* Some(what the closure made of it) once applied
    \* ---- the remote control plane and the runs so far ----
    remote,               \* cluster -> the descriptors of its services
    faults,               \* number of remote calls that have failed
    run,                  \* number of the current run of the command
    history               \* the result and diff of each earlier run

retry_vars == <<op_script, retry_pc, attempts, notified, elapsed, retry_result>>
args_vars == <<command, source_cluster, destination_cluster, role_suffix, modification>>
read_vars ==
    <<reads, token, service_arns, next_arn, described, inventories, pages, retries,
      last_response>>
sync_vars == <<diff, source_only, from_service>>
out_vars == <<requests, stdout, result>>
env_vars == <<remote, faults, run, history>>
update_vars == <<to_update>>
audit_vars ==
    <<audited, to_audit, container_definitions, images, target_groups, next_lookup>>
classify_vars == <<operation, remote_error, classified>>
cmd_vars ==
    <<args_vars, pc, read_vars, sync_vars, out_vars, env_vars, update_vars, audit_vars,
      classify_vars>>

vars == <<retry_vars, cmd_vars>>

None == << >>
Some(x) == <<x>>
is_some(o) == o /= None
unwrap(o) == o[1]

Range(s) == {s[i] : i \in 1..Len(s)}

(***************************************************************************)
(* Bounds of the model.                                                    *)
(***************************************************************************)
MaxCalls == 3        \* length of the operation's script in SpecRetry
MaxAdvance == 2      \* longest single call or sleep, in ticks
MaxPages == 3        \* pages one listing fetches at most
MaxFaults == 1       \* remote calls that fail during the runs of a command
MaxRuns == 2         \* consecutive runs of the command
MaxSource == 2       \* services cluster A holds at the start
MaxDestination == 1  \* services cluster B holds at the start
PageSize == 1        \* identifiers per ListServices page of the honest control plane
MaxContainers == 2   \* container definitions of a task definition
MaxServices == 3     \* services of the cluster the update command works on

(***************************************************************************)
(* retry_log: op.retry_notify(&mut ExponentialBackoff::default(), notify). *)
(* The default policy carries max_elapsed_time = 900 000 ms; time is       *)
(* counted in ticks of 300 000 ms, so the limit is 3 ticks.                *)
(***************************************************************************)
MaxElapsedTime == 3

OkValues == {"v1"}
ErrValues == {"e1", "e2"}
Ok(v) == [kind |-> "Ok", val |-> v]
Transient(e) == [kind |-> "Transient", err |-> e]
Permanent(e) == [kind |-> "Permanent", err |-> e]
OpOutcomes ==
    {Ok(v) : v \in OkValues} \cup {Transient(e) : e \in ErrValues}
        \cup {Permanent(e) : e \in ErrValues}

RECURSIVE Scripts(_)
Scripts(n) ==
    IF n = 0 THEN {<< >>}
    ELSE {Append(s, o) : s \in Scripts(n - 1), o \in OpOutcomes}

\* ExponentialBackoff::next_backoff: None once the elapsed time exceeds
\* max_elapsed_time, otherwise Some(interval).
next_backoff_expired_at_limit(now) == now >= MaxElapsedTime
next_backoff_expired(now) == now > MaxElapsedTime

\* retry_notify's match on the error: Error::Transient goes round the loop,
\* Error::Permanent is returned.
retryable_any_error(r) == r.kind /= "Ok"
retryable(r) == r.kind = "Transient"

\* The notify closure of retry_log: one "<msg> failed due to <err>. Retrying"
\* line per call.
notify_silent(log, err) == log
notify(log, err) == Append(log, err)

RetryStart ==
    /\ op_script \in Scripts(MaxCalls)
    /\ retry_pc = "running"
    /\ attempts = 0
    /\ notified = << >>
    /\ elapsed = 0
    /\ retry_result = None

\* One iteration of retry_notify's loop: call the operation (taking d_op
\* ticks); return on Ok or on a permanent error; on a transient error ask the
\* backoff for the next interval, and either give up with that error or
\* notify (log) and sleep (d_sleep ticks).
retry_log(d_op, d_sleep) ==
    /\ retry_pc = "running"
    /\ attempts < Len(op_script)
    /\ LET r == op_script[attempts + 1]
           now == elapsed + d_op
       IN /\ attempts' = attempts + 1
          /\ IF r.kind = "Ok" \/ ~retryable(r)
             THEN /\ retry_pc' = "returned"
                  /\ retry_result' = Some(r)
                  /\ elapsed' = now
                  /\ UNCHANGED notified
             ELSE IF next_backoff_expired(now)
             THEN /\ retry_pc' = "returned"
                  /\ retry_result' = Some(r)
                  /\ elapsed' = now
                  /\ UNCHANGED notified
             ELSE /\ notified' = notify(notified, r.err)
                  /\ elapsed' = now + d_sleep
                  /\ UNCHANGED <<retry_pc, retry_result>>
    /\ UNCHANGED <<op_script, cmd_vars>>

(***************************************************************************)
(* Data model: rusoto_ecs::Service, restricted to the fields the code      *)
(* reads, and the results and errors the functions return.                 *)
(***************************************************************************)
Clusters == {"A", "B"}
RoleSuffixes == {None, Some("Deployer")}

LoadBalancer(tg) == [target_group_arn |-> tg]
NetworkConfiguration(awsvpc) == [awsvpc_configuration |-> awsvpc]
Service(name, desired, running, td, lbs, net) ==
    [service_name |-> name, desired_count |-> desired, running_count |-> running,
     task_definition |-> td, load_balancers |-> lbs, network_configuration |-> net]

\* failure::Error values: the message, what it quotes after the message (a
\* service name, an identifier, or the {:?} dump of a descriptor; None if
\* nothing) and the remote error it wraps (if any).
Error(msg, name, cause) == [msg |-> msg, name |-> name, cause |-> cause]
Err(e) == [kind |-> "Err", err |-> e]
Panic == [kind |-> "Panic"]

\* A text the code compares, searches or splits is a sequence of pieces, so
\* that equality, String::contains and str::split are what the code computes.
\* Errors of the remote client (rusoto's *Error enums): Unknown(body) or
\* another variant.
ThrottlingException == <<"{\"__type\":\"ThrottlingException\",\"message\":\"Rate exceeded\"}">>
Unknown(body) == [variant |-> "Unknown", body |-> body]
RemoteErrors ==
    {Unknown(ThrottlingException), Unknown(<<"AccessDenied">>),
     [variant |-> "HttpDispatch", body |-> << >>]}

\* The map_err closures of list_services, describe_service, update_service and
\* service_ecr_images: Unknown(s) with s equal to the throttling body is
\* transient, everything else permanent.
classify(e) ==
    IF e.variant = "Unknown"
    THEN IF e.body = ThrottlingException THEN Transient(e) ELSE Permanent(e)
    ELSE Permanent(e)

\* services.rs service_name
service_name_or_empty(service) ==
    Ok(IF service.service_name /= None THEN unwrap(service.service_name) ELSE "")
service_name(service) ==
    IF service.service_name /= None
    THEN Ok(unwrap(service.service_name))
    ELSE Err(Error("No service name found for", Some(service), None))

(***************************************************************************)
(* create_service (services.rs:129-202, main.rs:262-323).                  *)
(***************************************************************************)
has_loadbalancer_any_list(service) == service.load_balancers /= None
has_loadbalancer(service) ==
    IF service.load_balancers = None THEN FALSE
    ELSE unwrap(service.load_balancers) /= << >>

is_awsvpc(service) ==
    IF service.network_configuration = None THEN FALSE
    ELSE is_some(unwrap(service.network_configuration).awsvpc_configuration)

role_of(cluster, service, suffix) ==
    IF has_loadbalancer(service) /\ ~is_awsvpc(service)
    THEN Some(cluster \o "-" \o (IF suffix = None THEN "ECSServiceRole" ELSE unwrap(suffix)))
    ELSE None

\* The CreateServiceRequest both versions build (the fields of the template
\* this model carries are copied as they are).
CreateServiceRequest(cluster, service, suffix) ==
    [op |-> "CreateService",
     cluster |-> Some(cluster),
     desired_count |-> unwrap(service.desired_count),
     load_balancers |-> service.load_balancers,
     network_configuration |-> service.network_configuration,
     role |-> role_of(cluster, service, suffix),
     service_name |-> service_name(service).val,
     task_definition |-> unwrap(service.task_definition)]

\* The service the control plane creates for a CreateService request.
CreatedService(req) ==
    Service(Some(req.service_name), Some(req.desired_count), Some(0),
            Some(req.task_definition), req.load_balancers, req.network_configuration)

\* What the control plane can answer to a CreateService request.
CreateServiceOk(req) == Ok([service |-> Some(CreatedService(req))])
CreateServiceOkNothing == Ok([service |-> None])

\* services.rs create_service: [sent: the request issued, if any; ret: the
\* value returned], for the response the control plane gives to the request.
create_service(cluster, service, suffix, response) ==
    IF service_name(service).kind = "Err"
    THEN [sent |-> None, ret |-> service_name(service)]
    ELSE IF service.desired_count = None
    THEN [sent |-> None,
          ret |-> Err(Error("No desired count found for", service.service_name, None))]
    ELSE IF service.task_definition = None
    THEN [sent |-> None,
          ret |-> Err(Error("No task definition found for", service.service_name, None))]
    ELSE [sent |-> Some(CreateServiceRequest(cluster, service, suffix)),
          ret |-> IF response.kind = "Ok"
                  THEN IF response.val.service = None
                       THEN Err(Error("Tried to create service, but nothing returned", None, None))
                       ELSE Ok(Some(unwrap(response.val.service)))
                  ELSE Ok(None)]

\* main.rs create_service: the same request, but a remote error is returned
\* to the caller (.sync()?), and the result is the service itself.
main_create_service_swallows_errors(cluster, service, suffix, response) ==
    LET r == create_service(cluster, service, suffix, response)
    IN IF r.ret.kind = "Ok" THEN [sent |-> r.sent, ret |-> Ok(service)] ELSE r

main_create_service_anonymous_errors(cluster, service, suffix, response) ==
    LET r == create_service(cluster, service, suffix, response)
    IN IF r.sent = None
       THEN [sent |-> None, ret |-> Err(Error(r.ret.err.msg, None, None))]
       ELSE r

main_create_service(cluster, service, suffix, response) ==
    IF service.service_name = None
    THEN [sent |-> None, ret |-> Err(Error("No service name found", None, None))]
    ELSE IF service.desired_count = None
    THEN [sent |-> None,
          ret |-> Err(Error("No desired count found for", service.service_name, None))]
    ELSE IF service.task_definition = None
    THEN [sent |-> None,
          ret |-> Err(Error("No task definition found for", service.service_name, None))]
    ELSE [sent |-> Some(CreateServiceRequest(cluster, service, suffix)),
          ret |-> IF response.kind = "Ok"
                  THEN IF response.val.service = None
                       THEN Err(Error("Tried to create service, but nothing returned", None, None))
                       ELSE Ok(unwrap(response.val.service))
                  ELSE Err(Error("remote", None, Some(response.err)))]

\* The inventory after the control plane has handled the request: a
\* successful CreateService adds the service to the cluster.
remote_after(inventory, cluster, sent, response) ==
    IF sent /= None /\ response.kind = "Ok"
    THEN [inventory EXCEPT ![cluster] = Append(@, CreatedService(unwrap(sent)))]
    ELSE inventory

(***************************************************************************)
(* A retried remote call inside a command.  Each action below is one       *)
(* attempt of the call together with the code that handles its outcome:    *)
(* o is what the client returned (Ok(response) or Err(remote error)) and   *)
(* expired says whether the backoff's max_elapsed_time has passed when a   *)
(* transient error is handled (next_backoff_expired in SpecRetry).         *)
(***************************************************************************)
retry_step(o, expired) ==
    IF o.kind = "Ok" THEN "return"
    ELSE IF retryable(classify(o.err)) /\ ~expired THEN "retry"
    ELSE "fail"

Last(s) == s[Len(s)]

\* The log of requests: each request the code builds is logged once; an
\* attempt that follows a throttled one re-sends the request already logged
\* (retries counts those).
sent(log, req) == IF retries > 0 THEN log ELSE Append(log, req)

(***************************************************************************)
(* list_services (services.rs:44-81, main.rs:177-214).                     *)
(***************************************************************************)
\* The request of the loop body: the token the loop variable holds.
ListServicesRequest_first_token(cluster, tok) ==
    [op |-> "ListServices", cluster |-> Some(cluster), next_token |-> Some("")]
ListServicesRequest(cluster, tok) ==
    [op |-> "ListServices", cluster |-> Some(cluster), next_token |-> tok]

\* services.append(&mut arns) when the page has a list of identifiers.
append_arns_replacing(services, res) ==
    IF res.service_arns = None THEN services ELSE unwrap(res.service_arns)
append_arns(services, res) ==
    IF res.service_arns = None THEN services ELSE services \o unwrap(res.service_arns)

list_services_page(o, expired) ==
    /\ pc = "list"
    /\ Len(pages) < MaxPages
    /\ requests' = sent(requests, ListServicesRequest(Head(reads), token))
    /\ CASE retry_step(o, expired) = "return" ->
              /\ pages' = Append(pages, o.val)
              /\ service_arns' = append_arns(service_arns, o.val)
              /\ token' = o.val.next_token
              /\ pc' = IF is_some(o.val.next_token) THEN "list" ELSE "describe"
              /\ retries' = 0
              /\ UNCHANGED <<result, faults>>
         [] retry_step(o, expired) = "retry" ->
              /\ faults' = faults + 1
              /\ retries' = retries + 1
              /\ UNCHANGED <<pages, service_arns, token, pc, result>>
         [] retry_step(o, expired) = "fail" ->
              /\ faults' = faults + 1
              /\ retries' = 0
              /\ result' = Some(Err(Error("remote", None, Some(o.err))))
              /\ pc' = "done"
              /\ UNCHANGED <<pages, service_arns, token>>
    /\ UNCHANGED <<retry_vars, classify_vars, audit_vars, update_vars, args_vars, reads, next_arn, described, inventories,
                   last_response, sync_vars, stdout, remote, run, history>>

(***************************************************************************)
(* describe_service (services.rs:83-117, main.rs:216-250).                 *)
(***************************************************************************)
DescribeServicesRequest_first_name(cluster, service) ==
    [op |-> "DescribeServices", cluster |-> Some(cluster), services |-> <<"arn1">>]
DescribeServicesRequest(cluster, service) ==
    [op |-> "DescribeServices", cluster |-> Some(cluster), services |-> <<service>>]

\* What describe_service makes of a DescribeServices response.
describe_service(res, service) ==
    IF res.failures /= None /\ unwrap(res.failures) /= << >>
    THEN Err(Error("Failures", None, None))
    ELSE IF res.services = None
    THEN Err(Error("No service description for", Some(service), None))
    ELSE IF unwrap(res.services) = << >> THEN Panic
    ELSE Ok(Last(unwrap(res.services)))

describe_service_call(o, expired) ==
    /\ pc = "describe"
    /\ next_arn <= Len(service_arns)
    /\ requests' = sent(requests, DescribeServicesRequest(Head(reads), service_arns[next_arn]))
    /\ CASE retry_step(o, expired) = "return" ->
              LET r == describe_service(o.val, service_arns[next_arn])
              IN /\ last_response' = Some(o.val)
                 /\ IF r.kind = "Ok"
                    THEN /\ described' = Append(described, r.val)
                         /\ next_arn' = next_arn + 1
                         /\ retries' = 0
                         /\ UNCHANGED <<pc, result, faults>>
                    ELSE /\ result' = Some(r)
                         /\ pc' = "done"
                         /\ retries' = 0
                         /\ UNCHANGED <<described, next_arn, faults>>
         [] retry_step(o, expired) = "retry" ->
              /\ faults' = faults + 1
              /\ retries' = retries + 1
              /\ UNCHANGED <<described, next_arn, pc, result, last_response>>
         [] retry_step(o, expired) = "fail" ->
              /\ faults' = faults + 1
              /\ retries' = 0
              /\ result' = Some(Err(Error("remote", None, Some(o.err))))
              /\ pc' = "done"
              /\ UNCHANGED <<described, next_arn, last_response>>
    /\ UNCHANGED <<retry_vars, classify_vars, audit_vars, update_vars, args_vars, reads, token, service_arns, inventories, pages,
                   sync_vars, stdout, remote, run, history>>

(***************************************************************************)
(* compare_services (services.rs:25-42) and the same code inline in the    *)
(* Compare and Sync arms of main (main.rs:129-137, 154-161).               *)
(***************************************************************************)
RECURSIVE contains(_, _)
contains_named_only(vec, x) == x /= None /\ \E i \in 1..Len(vec) : vec[i] = x
contains(vec, x) ==
    IF vec = << >> THEN FALSE
    ELSE IF Head(vec) = x THEN TRUE ELSE contains(Tail(vec), x)

destination_names(destination_services) ==
    [i \in 1..Len(destination_services) |-> destination_services[i].service_name]

RECURSIVE filter_source_only(_, _)
filter_source_only(source_services, names) ==
    IF source_services = << >> THEN << >>
    ELSE IF ~contains(names, Head(source_services).service_name)
         THEN <<Head(source_services)>> \o filter_source_only(Tail(source_services), names)
         ELSE filter_source_only(Tail(source_services), names)

compare_services_unfiltered(source_services, destination_services) == source_services
compare_services(source_services, destination_services) ==
    filter_source_only(source_services, destination_names(destination_services))

(***************************************************************************)
(* audit_service (services.rs:259-276), for the lookup results that        *)
(* service_ecr_images and service_target_groups returned.                  *)
(***************************************************************************)
unwrap_or(o, default) == IF o = None THEN default ELSE unwrap(o)

any_is_err(results) == \E i \in 1..Len(results) : results[i].kind = "Err"

audit_service_at_most_desired(ecr_images, elb_target_groups, service) ==
    {finding \in {"Invalid ECR images", "Invalid Target groups", "Less than desired"} :
        CASE finding = "Invalid ECR images" -> any_is_err(ecr_images)
          [] finding = "Invalid Target groups" -> any_is_err(elb_target_groups)
          [] finding = "Less than desired" ->
                unwrap_or(service.running_count, 0) <= unwrap_or(service.desired_count, 0)}

audit_service(ecr_images, elb_target_groups, service) ==
    {finding \in {"Invalid ECR images", "Invalid Target groups", "Less than desired"} :
        CASE finding = "Invalid ECR images" -> any_is_err(ecr_images)
          [] finding = "Invalid Target groups" -> any_is_err(elb_target_groups)
          [] finding = "Less than desired" ->
                unwrap_or(service.running_count, 0) < unwrap_or(service.desired_count, 0)}

(***************************************************************************)
(* describe_services (services.rs:119-127, main.rs:252-260) returning, and *)
(* the command going on to its next remote call: the Info, Compare and     *)
(* Sync arms of main (main.rs:94-171).                                     *)
(***************************************************************************)
Unit == Ok("()")

\* println! of the Info arm: one line per description.
info_lines(descriptions) ==
    [i \in 1..Len(descriptions) |->
        [name |-> descriptions[i].service_name,
         task |-> descriptions[i].task_definition,
         desired |-> descriptions[i].desired_count]]

\* println! of the Compare arm: the names, then the total.
compare_lines(only) ==
    [names |-> [i \in 1..Len(only) |-> only[i].service_name], total |-> Len(only)]

\* The Update arm once the services are described: the loop over them starts.
update_all_start(services) ==
    /\ to_update' = services
    /\ pc' = IF services = << >> THEN "done" ELSE "update"
    /\ result' = IF services = << >> THEN Some(Unit) ELSE None

\* The Audit arm of main (main.rs:105-121) once the services are described:
\* the header line is printed and the filter takes the first service.
audit_start(services) ==
    /\ stdout' = Some(<< >>)
    /\ audited' = IF services = << >> THEN None ELSE Some(Head(services))
    /\ to_audit' = IF services = << >> THEN << >> ELSE Tail(services)
    /\ pc' = IF services = << >> THEN "done" ELSE "ecr_images"
    /\ result' = IF services = << >> THEN Some(Unit) ELSE None

describe_services_return ==
    /\ pc = "describe"
    /\ next_arn > Len(service_arns)
    /\ inventories' = Append(inventories, described)
    /\ reads' = Tail(reads)
    /\ token' = Some("")
    /\ service_arns' = << >>
    /\ pages' = << >>
    /\ next_arn' = 1
    /\ described' = << >>
    /\ retries' = 0
    /\ last_response' = None
    /\ IF Tail(reads) /= << >>
       THEN /\ pc' = "list"
            /\ UNCHANGED <<diff, source_only, stdout, result>>
       ELSE CASE command = "info" ->
                  /\ stdout' = Some(info_lines(inventories'[1]))
                  /\ result' = Some(Unit)
                  /\ pc' = "done"
                  /\ UNCHANGED <<diff, source_only>>
             [] command = "compare" ->
                  /\ diff' = Some(compare_services(inventories'[1], inventories'[2]))
                  /\ stdout' = Some(compare_lines(unwrap(diff')))
                  /\ result' = Some(Unit)
                  /\ pc' = "done"
                  /\ UNCHANGED source_only
             [] command = "sync" ->
                  /\ diff' = Some(compare_services(inventories'[1], inventories'[2]))
                  /\ source_only' = unwrap(diff')
                  /\ pc' = IF source_only' = << >> THEN "done" ELSE "create"
                  /\ result' = IF source_only' = << >> THEN Some(Unit) ELSE None
                  /\ UNCHANGED stdout
             [] command = "update" ->
                  /\ update_all_start(inventories'[1])
                  /\ UNCHANGED <<diff, source_only, stdout>>
             [] command = "audit" ->
                  /\ audit_start(inventories'[1])
                  /\ UNCHANGED <<diff, source_only>>
    /\ IF Tail(reads) = << >> /\ command = "update" THEN TRUE ELSE UNCHANGED to_update
    /\ IF Tail(reads) = << >> /\ command = "audit" THEN TRUE ELSE UNCHANGED <<audited, to_audit>>
    /\ UNCHANGED <<retry_vars, classify_vars, container_definitions, images, target_groups,
                   next_lookup, args_vars, from_service, requests, env_vars>>

(***************************************************************************)
(* service_ecr_images (services.rs:278-371), service_target_groups         *)
(* (services.rs:373-434) and audit_service (services.rs:259-276) run on    *)
(* one service.                                                            *)
(***************************************************************************)
\* String::contains
str_contains(s, pat) ==
    \E i \in 1..(Len(s) - Len(pat) + 1) : SubSeq(s, i, i + Len(pat) - 1) = pat

\* str::split(sep).collect::<Vec<&str>>()
RECURSIVE split(_, _)
split(s, sep) ==
    IF \A i \in 1..Len(s) : s[i] /= sep THEN <<s>>
    ELSE LET i == CHOOSE k \in 1..Len(s) : s[k] = sep /\ \A j \in 1..(k - 1) : s[j] /= sep
         IN <<SubSeq(s, 1, i - 1)>> \o split(SubSeq(s, i + 1, Len(s)), sep)

\* The map_err closure of service_target_groups: Unknown(s) with s
\* containing the throttling code is transient, everything else permanent.
ThrottlingCode == <<"<Code>Throttling</Code>">>

classify_target_groups_exact(e) ==
    IF e.variant = "Unknown" /\ e.body = ThrottlingCode THEN Transient(e) ELSE Permanent(e)
classify_target_groups(e) ==
    IF e.variant = "Unknown"
    THEN IF str_contains(e.body, ThrottlingCode) THEN Transient(e) ELSE Permanent(e)
    ELSE Permanent(e)

retry_step_target_groups(o, expired) ==
    IF o.kind = "Ok" THEN "return"
    ELSE IF retryable(classify_target_groups(o.err)) /\ ~expired THEN "retry"
    ELSE "fail"

DescribeTaskDefinitionRequest_registering(task_definition) ==
    [op |-> "UpdateService", task_definition |-> task_definition]
DescribeTaskDefinitionRequest(task_definition) ==
    [op |-> "DescribeTaskDefinition", task_definition |-> task_definition]

\* image_arn.split('/').collect().pop(), then split(':'): Panic when the
\* last segment has no ':' (split_repo_image[1] is out of bounds).
DescribeImagesRequest(image_arn) ==
    LET repo_image == Last(split(image_arn, "/"))
        split_repo_image == split(repo_image, ":")
    IN IF Len(split_repo_image) < 2 THEN Panic
       ELSE [op |-> "DescribeImages",
             repository_name |-> split_repo_image[1],
             image_ids |-> Some(<<[image_digest |-> None,
                                   image_tag |-> Some(split_repo_image[2])]>>)]

DescribeTargetGroupsInput(target_group_arn) ==
    [op |-> "DescribeTargetGroups", target_group_arns |-> Some(<<target_group_arn>>)]

\* The phase that follows the image lookups: the loop over the bindings, if
\* there is any binding.
pc_target_groups ==
    IF unwrap(audited).load_balancers = None THEN "audit"
    ELSE IF unwrap(unwrap(audited).load_balancers) = << >> THEN "audit"
    ELSE "target_groups"

\* What service_ecr_images does with the DescribeTaskDefinition response.
image_arns_of(res) ==
    IF res.task_definition = None THEN << >>
    ELSE IF unwrap(res.task_definition).container_definitions = None THEN << >>
    ELSE LET cds == unwrap(unwrap(res.task_definition).container_definitions)
         IN [i \in 1..Len(cds) |-> cds[i].image]

\* service_ecr_images up to the loop: one attempt of DescribeTaskDefinition.
describe_task_definition_call(o, expired) ==
    /\ pc = "task_definition"
    /\ IF unwrap(audited).task_definition = None
       THEN /\ pc' = pc_target_groups
            /\ UNCHANGED <<requests, result, faults, retries, container_definitions>>
       ELSE /\ requests' = sent(requests,
                   DescribeTaskDefinitionRequest(unwrap(unwrap(audited).task_definition)))
            /\ CASE retry_step(o, expired) = "return" ->
                      /\ container_definitions' = Some(image_arns_of(o.val))
                      /\ pc' = IF image_arns_of(o.val) = << >> THEN pc_target_groups
                               ELSE "images"
                      /\ retries' = 0
                      /\ UNCHANGED <<result, faults>>
                 [] retry_step(o, expired) = "retry" ->
                      /\ faults' = faults + 1
                      /\ retries' = retries + 1
                      /\ UNCHANGED <<container_definitions, pc, result>>
                 [] retry_step(o, expired) = "fail" ->
                      /\ faults' = faults + 1
                      /\ retries' = 0
                      /\ result' = Some(Err(Error("remote", None, Some(o.err))))
                      /\ pc' = "done"
                      /\ UNCHANGED container_definitions
    /\ UNCHANGED <<retry_vars, classify_vars, args_vars, reads, token, service_arns, next_arn, described,
                   inventories, pages, last_response, sync_vars, stdout, remote, run, history,
                   update_vars, audited, to_audit, images, target_groups, next_lookup>>

\* What the loop body of service_ecr_images pushes for the DescribeImages
\* outcome o.
push_image_always(vec, o) ==
    IF o.kind = "Ok" THEN Append(vec, Ok("detail")) ELSE Append(vec, Err(o.err))
push_image(vec, o) ==
    IF o.kind = "Ok"
    THEN IF o.val.image_details = None THEN vec
         ELSE IF unwrap(o.val.image_details) = << >> THEN vec
         ELSE Append(vec, Ok(Last(unwrap(o.val.image_details))))
    ELSE Append(vec, Err(Error("remote", None, Some(o.err))))

\* One turn of the loop of service_ecr_images over the image references.
describe_images_call(o) ==
    /\ pc = "images"
    /\ LET image_arn == unwrap(container_definitions)[next_lookup]
           last == next_lookup = Len(unwrap(container_definitions))
       IN IF image_arn = None
          THEN /\ next_lookup' = IF last THEN 1 ELSE next_lookup + 1
               /\ pc' = IF last THEN pc_target_groups ELSE "images"
               /\ UNCHANGED <<requests, images, result, faults, last_response>>
          ELSE IF DescribeImagesRequest(unwrap(image_arn)) = Panic
          THEN /\ result' = Some(Panic)
               /\ pc' = "done"
               /\ UNCHANGED <<requests, images, next_lookup, faults, last_response>>
          ELSE /\ requests' = Append(requests, DescribeImagesRequest(unwrap(image_arn)))
               /\ last_response' = Some(o)
               /\ images' = push_image(images, o)
               /\ faults' = IF o.kind = "Err" THEN faults + 1 ELSE faults
               /\ next_lookup' = IF last THEN 1 ELSE next_lookup + 1
               /\ pc' = IF last THEN pc_target_groups ELSE "images"
               /\ UNCHANGED result
    /\ UNCHANGED <<retry_vars, classify_vars, args_vars, reads, token, service_arns, next_arn, described,
                   inventories, pages, retries, sync_vars, stdout, remote, run, history,
                   update_vars, audited, to_audit, container_definitions, target_groups>>

\* What the loop body of service_target_groups pushes for the outcome o the
\* retried DescribeTargetGroups call ended with.
push_target_group_stopping(vec, o) ==
    IF o.kind = "Ok" /\ o.val.target_groups /= None /\ vec = << >>
    THEN Append(vec, Ok("tg"))
    ELSE vec
push_target_group(vec, o) ==
    IF o.kind = "Ok"
    THEN IF o.val.target_groups = None THEN vec
         ELSE IF unwrap(o.val.target_groups) = << >> THEN vec
         ELSE Append(vec, Ok(Last(unwrap(o.val.target_groups))))
    ELSE Append(vec, Err(Error("remote", None, Some(o.err))))

\* One attempt of the DescribeTargetGroups call for the binding next_lookup
\* (or the turn of the loop that skips a binding without a reference).
describe_target_groups_call(o, expired) ==
    /\ pc = "target_groups"
    /\ LET load_balancers == unwrap(unwrap(audited).load_balancers)
           target_group_arn == load_balancers[next_lookup].target_group_arn
           last == next_lookup = Len(load_balancers)
       IN IF target_group_arn = None
          THEN /\ next_lookup' = IF last THEN 1 ELSE next_lookup + 1
               /\ pc' = IF last THEN "audit" ELSE "target_groups"
               /\ UNCHANGED <<requests, target_groups, faults, retries, last_response>>
          ELSE /\ requests' = sent(requests, DescribeTargetGroupsInput(unwrap(target_group_arn)))
               /\ IF retry_step_target_groups(o, expired) = "retry"
                  THEN /\ faults' = faults + 1
                       /\ retries' = retries + 1
                       /\ UNCHANGED <<target_groups, next_lookup, pc, last_response>>
                  ELSE /\ target_groups' = push_target_group(target_groups, o)
                       /\ last_response' = Some(o)
                       /\ faults' = IF o.kind = "Err" THEN faults + 1 ELSE faults
                       /\ retries' = 0
                       /\ next_lookup' = IF last THEN 1 ELSE next_lookup + 1
                       /\ pc' = IF last THEN "audit" ELSE "target_groups"
    /\ UNCHANGED <<retry_vars, classify_vars, args_vars, reads, token, service_arns, next_arn, described,
                   inventories, pages, sync_vars, stdout, result, remote, run,
                   history, update_vars, audited, to_audit, container_definitions, images>>

\* audit_service once both lookups have returned: the findings that are true.
audit_service_return ==
    /\ pc = "audit"
    /\ result' = Some(Ok(audit_service(images, target_groups, unwrap(audited))))
    /\ pc' = "done"
    /\ UNCHANGED <<retry_vars, classify_vars, args_vars, read_vars, sync_vars, requests, stdout, env_vars,
                   update_vars, audit_vars>>

(***************************************************************************)
(* The Audit arm of main (main.rs:105-121) and main's own copy of the      *)
(* image lookup, ecr_images (main.rs:325-418): the filter closure calls    *)
(* ecr_images on each described service in turn and the loop prints the    *)
(* name of each service the filter keeps.                                  *)
(***************************************************************************)
\* Result::unwrap_or_default on a Result<Vec<_>, _>
unwrap_or_default(r) == IF r.kind = "Ok" THEN r.val ELSE << >>

\* The filter closure on what ecr_images returned for the service under
\* audit, the loop body for a service that is kept, and the filter moving on
\* to the next service.
audit_filter(r) ==
    LET service == unwrap(audited)
        kept == any_is_err(unwrap_or_default(r))
    IN /\ stdout' = IF kept /\ service.service_name /= None
                    THEN Some(Append(unwrap(stdout), unwrap(service.service_name)))
                    ELSE stdout
       /\ container_definitions' = None
       /\ images' = << >>
       /\ next_lookup' = 1
       /\ IF to_audit = << >>
          THEN /\ pc' = "done"
               /\ result' = Some(Unit)
               /\ UNCHANGED <<audited, to_audit>>
          ELSE /\ audited' = Some(Head(to_audit))
               /\ to_audit' = Tail(to_audit)
               /\ pc' = "ecr_images"
               /\ UNCHANGED result

\* ecr_images up to its loop: one attempt of DescribeTaskDefinition.
\* last_response keeps the outcome the retried call ended with.
main_ecr_images_call(o, expired) ==
    /\ pc = "ecr_images"
    /\ LET service == unwrap(audited)
           absent == service.task_definition = None
           step == IF absent THEN "return" ELSE retry_step(o, expired)
           image_arns == IF absent \/ step /= "return" THEN << >> ELSE image_arns_of(o.val)
       IN /\ requests' =
                IF absent THEN requests
                ELSE sent(requests, DescribeTaskDefinitionRequest(unwrap(service.task_definition)))
          /\ faults' = IF step = "return" THEN faults ELSE faults + 1
          /\ retries' = IF step = "retry" THEN retries + 1 ELSE 0
          /\ last_response' = IF absent \/ step = "retry" THEN last_response ELSE Some(o)
          /\ CASE step = "retry" ->
                    UNCHANGED <<pc, result, stdout, audited, to_audit, container_definitions,
                                images, next_lookup>>
               [] step = "return" /\ image_arns /= << >> ->
                    /\ container_definitions' = Some(image_arns)
                    /\ pc' = "ecr_images_loop"
                    /\ UNCHANGED <<result, stdout, audited, to_audit, images, next_lookup>>
               [] step = "return" /\ image_arns = << >> -> audit_filter(Ok(<< >>))
               [] step = "fail" -> audit_filter(Err(Error("remote", None, Some(o.err))))
    /\ UNCHANGED <<retry_vars, classify_vars, args_vars, reads, token, service_arns, next_arn,
                   described, inventories, pages, sync_vars, remote, run, history,
                   update_vars, target_groups>>

\* One turn of the loop of ecr_images over the image references; after the
\* last one ecr_images returns Ok(images) to the filter.
main_ecr_images_loop(o) ==
    /\ pc = "ecr_images_loop"
    /\ LET image_arn == unwrap(container_definitions)[next_lookup]
           last == next_lookup = Len(unwrap(container_definitions))
           called == image_arn /= None /\ DescribeImagesRequest(unwrap(image_arn)) /= Panic
           pushed == IF called THEN push_image(images, o) ELSE images
       IN IF image_arn /= None /\ ~called
          THEN /\ result' = Some(Panic)
               /\ pc' = "done"
               /\ UNCHANGED <<requests, faults, stdout, audited, to_audit,
                              container_definitions, images, next_lookup>>
          ELSE /\ requests' = IF called
                              THEN Append(requests, DescribeImagesRequest(unwrap(image_arn)))
                              ELSE requests
               /\ faults' = IF called /\ o.kind = "Err" THEN faults + 1 ELSE faults
               /\ IF last
                  THEN audit_filter(Ok(pushed))
                  ELSE /\ images' = pushed
                       /\ next_lookup' = next_lookup + 1
                       /\ UNCHANGED <<pc, result, stdout, audited, to_audit,
                                      container_definitions>>
    /\ UNCHANGED <<retry_vars, classify_vars, args_vars, read_vars, sync_vars, remote, run,
                   history, update_vars, target_groups>>

(***************************************************************************)
(* update_service (services.rs:204-257).  The modification is              *)
(* ServiceModification::DesiredCount { count } (args.rs:117-125) with a    *)
(* number for count, the only form update_service's request can carry.     *)
(***************************************************************************)
DesiredCount(count) == [count |-> count]

UpdateServiceRequest_without_count(cluster, name, m) ==
    [op |-> "UpdateService",
     cluster |-> Some(cluster),
     desired_count |-> None,
     deployment_configuration |-> None,
     force_new_deployment |-> None,
     health_check_grace_period_seconds |-> None,
     network_configuration |-> None,
     platform_version |-> None,
     service |-> name,
     task_definition |-> None]
UpdateServiceRequest(cluster, name, m) ==
    [op |-> "UpdateService",
     cluster |-> Some(cluster),
     desired_count |-> Some(m.count),
     deployment_configuration |-> None,
     force_new_deployment |-> None,
     health_check_grace_period_seconds |-> None,
     network_configuration |-> None,
     platform_version |-> None,
     service |-> name,
     task_definition |-> None]

\* The service the control plane reports after an UpdateService request.
UpdatedService(service, req) == [service EXCEPT !.desired_count = req.desired_count]
UpdateServiceOk(service, req) == Ok([service |-> Some(UpdatedService(service, req))])
UpdateServiceOkNothing == Ok([service |-> None])

\* retry_log(...)?.service.ok_or(...): what update_service returns for the
\* outcome o the retried call ended with.
update_service_result(o) ==
    IF o.kind = "Ok"
    THEN IF o.val.service = None
         THEN Err(Error("Tried to update service, but nothing returned", None, None))
         ELSE Ok(unwrap(o.val.service))
    ELSE Err(Error("remote", None, Some(o.err)))

\* The inventory after the control plane has handled an UpdateService request.
remote_after_update(inventory, cluster, req, o) ==
    IF o.kind = "Ok"
    THEN [inventory EXCEPT ![cluster] =
            [i \in 1..Len(@) |->
                IF @[i].service_name = Some(req.service) THEN UpdatedService(@[i], req)
                ELSE @[i]]]
    ELSE inventory

\* update_service called on its own: its value is the result.
update_service_returned(r, log) ==
    /\ requests' = log
    /\ result' = Some(r)
    /\ pc' = "done"
    /\ to_update' = Tail(to_update)

\* The loop of the update command around update_service: an error ends the
\* command, a success is followed by the inter-call pause and the next
\* service.
Sleep == [op |-> "Sleep"]

inter_call_pause_skipped(log) == log
inter_call_pause(log) == Append(log, Sleep)

update_all_returned(r, log) ==
    IF r.kind = "Ok"
    THEN /\ requests' = inter_call_pause(log)
         /\ to_update' = Tail(to_update)
         /\ pc' = IF Tail(to_update) = << >> THEN "done" ELSE "update"
         /\ result' = IF Tail(to_update) = << >> THEN Some(Unit) ELSE None
    ELSE /\ requests' = log
         /\ result' = Some(r)
         /\ pc' = "done"
         /\ UNCHANGED to_update

returned_to_caller(r, log) ==
    IF command = "update" THEN update_all_returned(r, log)
    ELSE update_service_returned(r, log)

\* One attempt of the UpdateService call of update_service for the service
\* at the head of to_update, with what precedes and follows it.
update_service_call(o, expired) ==
    /\ pc = "update"
    /\ to_update /= << >>
    /\ LET service == Head(to_update)
           name == service_name(service)
       IN IF name.kind = "Err"
          THEN /\ returned_to_caller(name, requests)
               /\ UNCHANGED <<from_service, remote, faults, retries>>
          ELSE LET req == UpdateServiceRequest(source_cluster, name.val, unwrap(modification))
               IN /\ from_service' = Some(service)
                  /\ IF retry_step(o, expired) = "retry"
                     THEN /\ requests' = sent(requests, req)
                          /\ faults' = faults + 1
                          /\ retries' = retries + 1
                          /\ UNCHANGED <<pc, result, to_update, remote>>
                     ELSE /\ returned_to_caller(update_service_result(o), sent(requests, req))
                          /\ retries' = 0
                          /\ faults' = IF o.kind = "Err" THEN faults + 1 ELSE faults
                          /\ remote' = remote_after_update(remote, source_cluster, req, o)
    /\ UNCHANGED <<retry_vars, classify_vars, audit_vars, args_vars, reads, token, service_arns, next_arn,
                   described, inventories, pages, last_response, diff, source_only, stdout,
                   run, history>>

\* What the loop body of the Sync arm does after create_service(...)?
\* returned Ok: nothing, the next iteration follows at once.
after_create_pausing(log) == Append(log, Sleep)
after_create(log) == log

\* One turn of the for loop of the Sync arm: create_service for the next
\* source-only service, `?` on its result.
sync_create(response) ==
    /\ pc = "create"
    /\ LET s == Head(source_only)
           r == main_create_service(destination_cluster, s, role_suffix, response)
       IN /\ from_service' = IF r.sent = None THEN from_service ELSE Some(s)
          /\ requests' =
                LET log == IF r.sent = None THEN requests ELSE Append(requests, unwrap(r.sent))
                IN IF r.ret.kind = "Err" THEN log ELSE after_create(log)
          /\ remote' = remote_after(remote, destination_cluster, r.sent, response)
          /\ faults' = IF r.sent /= None /\ response = CreateServiceOk(unwrap(r.sent))
                       THEN faults ELSE faults + 1
          /\ IF r.ret.kind = "Err"
             THEN /\ result' = Some(r.ret)
                  /\ pc' = "done"
                  /\ UNCHANGED source_only
             ELSE /\ source_only' = Tail(source_only)
                  /\ pc' = IF Tail(source_only) = << >> THEN "done" ELSE "create"
                  /\ result' = IF Tail(source_only) = << >> THEN Some(Unit) ELSE None
    /\ UNCHANGED <<retry_vars, classify_vars, audit_vars, update_vars, args_vars, read_vars, diff, stdout, run, history>>

\* The command is run again with the same arguments.
run_again ==
    /\ pc = "done"
    /\ command = "sync"
    /\ run < MaxRuns
    /\ run' = run + 1
    /\ history' = Append(history, [completed |-> unwrap(result).kind = "Ok", diff |-> diff])
    /\ pc' = "list"
    /\ reads' = IF command = "info" THEN <<source_cluster>>
                ELSE <<source_cluster, destination_cluster>>
    /\ token' = Some("")
    /\ service_arns' = << >>
    /\ next_arn' = 1
    /\ described' = << >>
    /\ inventories' = << >>
    /\ pages' = << >>
    /\ retries' = 0
    /\ last_response' = None
    /\ diff' = None
    /\ source_only' = << >>
    /\ from_service' = None
    /\ requests' = << >>
    /\ stdout' = None
    /\ result' = None
    /\ UNCHANGED <<retry_vars, classify_vars, audit_vars, update_vars, args_vars, remote, faults>>

(***************************************************************************)
(* The control plane.  An honest one answers from its inventory; calls     *)
(* fail (throttling or another error) at most MaxFaults times.             *)
(***************************************************************************)
Min(a, b) == IF a < b THEN a ELSE b
Arn(i) == "arn" \o ToString(i)
TokenAt(k) == IF k = 0 THEN "" ELSE ToString(k)
OffsetOf(cluster, tok) == CHOOSE k \in 0..Len(remote[cluster]) : TokenAt(k) = tok
IndexOf(cluster, arn) == CHOOSE i \in 1..Len(remote[cluster]) : Arn(i) = arn

\* A listing whose every page carries a continuation token.
ListServicesResponse_endless(cluster, tok) ==
    [service_arns |-> Some(<< >>), next_token |-> Some(tok)]

ListServicesResponse(cluster, tok) ==
    LET n == Len(remote[cluster])
        off == OffsetOf(cluster, tok)
    IN [service_arns |-> Some([i \in 1..Min(PageSize, n - off) |-> Arn(off + i)]),
        next_token |-> IF off + PageSize < n THEN Some(TokenAt(off + PageSize)) ELSE None]

DescribeServicesResponse(cluster, arn) ==
    [failures |-> Some(<< >>), services |-> Some(<<remote[cluster][IndexOf(cluster, arn)]>>)]

Failures ==
    IF faults < MaxFaults THEN {<<Err(e), x>> : e \in RemoteErrors, x \in BOOLEAN} ELSE {}

HonestListOutcomes ==
    IF pc = "list"
    THEN {<<Ok(ListServicesResponse(Head(reads), unwrap(token))), FALSE>>} \cup Failures
    ELSE {}

HonestDescribeOutcomes ==
    IF pc = "describe" /\ next_arn <= Len(service_arns)
    THEN {<<Ok(DescribeServicesResponse(Head(reads), service_arns[next_arn])), FALSE>>}
         \cup Failures
    ELSE {}

CreateResponses ==
    IF pc /= "create" THEN {}
    ELSE LET s == Head(source_only)
         IN IF s.service_name = None \/ s.desired_count = None \/ s.task_definition = None
            THEN {CreateServiceOkNothing}
            ELSE {CreateServiceOk(CreateServiceRequest(destination_cluster, s, role_suffix))}
                 \cup (IF faults < MaxFaults
                       THEN {CreateServiceOkNothing} \cup {Err(e) : e \in RemoteErrors}
                       ELSE {})

\* The services the clusters hold when the command starts.
Web == Service(Some("web"), Some(1), Some(1), Some("td-web"),
               Some(<<LoadBalancer(Some("tg-web"))>>), None)
Worker == Service(Some("worker"), Some(2), Some(1), Some("td-worker"), None, None)
Nameless == Service(None, Some(1), Some(1), Some("td-web"), None, None)
ServicePool == {Web, Worker, Nameless}

RECURSIVE SeqsUpTo(_, _)
SeqsUpTo(S, n) ==
    IF n = 0 THEN {<< >>}
    ELSE SeqsUpTo(S, n - 1) \cup
         {Append(s, x) : s \in {t \in SeqsUpTo(S, n - 1) : Len(t) = n - 1}, x \in S}

RetryIdle ==
    /\ op_script = << >>
    /\ retry_pc = "returned"
    /\ attempts = 0
    /\ notified = << >>
    /\ elapsed = 0
    /\ retry_result = None

LookupsIdle ==
    /\ to_update = << >>
    /\ audited = None
    /\ to_audit = << >>
    /\ container_definitions = None
    /\ images = << >>
    /\ target_groups = << >>
    /\ next_lookup = 1

ClassifyIdle ==
    /\ operation = None
    /\ remote_error = None
    /\ classified = None

CommandStart ==
    /\ (command /= "map_err" => ClassifyIdle)
    /\ pc = "list"
    /\ reads = IF command \in {"info", "audit", "update"} THEN <<source_cluster>>
               ELSE <<source_cluster, destination_cluster>>
    /\ token = Some("")
    /\ service_arns = << >>
    /\ next_arn = 1
    /\ described = << >>
    /\ inventories = << >>
    /\ pages = << >>
    /\ retries = 0
    /\ last_response = None
    /\ diff = None
    /\ source_only = << >>
    /\ from_service = None
    /\ requests = << >>
    /\ stdout = None
    /\ result = None
    /\ faults = 0
    /\ run = 1
    /\ history = << >>
    /\ LookupsIdle

Init ==
    /\ RetryIdle
    /\ command \in {"compare", "sync"}
    /\ source_cluster = "A"
    /\ destination_cluster \in (IF command = "info" THEN {source_cluster} ELSE Clusters)
    /\ role_suffix \in (IF command = "sync" THEN RoleSuffixes ELSE {None})
    /\ modification = None
    /\ remote \in {[c \in Clusters |-> IF c = "A" THEN a ELSE b] :
                     a \in SeqsUpTo(ServicePool, MaxSource), b \in SeqsUpTo(ServicePool, MaxDestination)}
    /\ CommandStart

Next ==
    \/ \E x \in HonestListOutcomes : list_services_page(x[1], x[2])
    \/ \E x \in HonestDescribeOutcomes : describe_service_call(x[1], x[2])
    \/ describe_services_return
    \/ \E response \in CreateResponses : sync_create(response)
    \/ run_again

Spec == Init /\ [][Next]_vars

(***************************************************************************)
(* describe_services run on its own (the Info arm of main) against a       *)
(* control plane that may answer anything the response types allow.        *)
(***************************************************************************)
AnyListResponses ==
    [service_arns : {None, Some(<< >>), Some(<<"arn1">>), Some(<<"arn2">>)},
     next_token : {None, Some("t1"), Some("t2")}]

Api == Service(Some("api"), Some(1), Some(1), Some("td-api"), None, None)
AnyDescribeResponses ==
    [failures : {None, Some(<< >>), Some(<<"MISSING">>)},
     services : {None, Some(<< >>), Some(<<Api>>), Some(<<Api, Web>>)}]

AnyListOutcomes ==
    IF pc = "list" THEN {<<Ok(res), FALSE>> : res \in AnyListResponses} \cup Failures ELSE {}

AnyDescribeOutcomes ==
    IF pc = "describe" /\ next_arn <= Len(service_arns)
    THEN {<<Ok(res), FALSE>> : res \in AnyDescribeResponses} \cup Failures
    ELSE {}

InventoryInit ==
    /\ RetryIdle
    /\ command = "info"
    /\ source_cluster \in Clusters
    /\ destination_cluster = source_cluster
    /\ role_suffix = None
    /\ modification = None
    /\ remote = [c \in Clusters |-> << >>]
    /\ CommandStart

InventoryNext ==
    \/ \E x \in AnyListOutcomes : list_services_page(x[1], x[2])
    \/ \E x \in AnyDescribeOutcomes : describe_service_call(x[1], x[2])
    \/ describe_services_return

SpecInventory == InventoryInit /\ [][InventoryNext]_vars

(***************************************************************************)
(* create_service called once, on any template, with any answer of the     *)
(* control plane: the version of services.rs and the version of main.rs.   *)
(***************************************************************************)
Templates ==
    {Service(n, d, Some(1), td, lbs, net) :
        n \in {None, Some("web")},
        d \in {None, Some(1)},
        td \in {None, Some("td-web")},
        lbs \in {None, Some(<< >>), Some(<<LoadBalancer(Some("tg-web"))>>),
                 Some(<<LoadBalancer(None), LoadBalancer(Some("tg-web"))>>)},
        net \in {None, Some(NetworkConfiguration(None)),
                 Some(NetworkConfiguration(Some("subnets")))}}

AnyCreateResponses ==
    IF pc /= "create" THEN {}
    ELSE LET s == Head(source_only)
         IN IF s.service_name = None \/ s.desired_count = None \/ s.task_definition = None
            THEN {CreateServiceOkNothing}
            ELSE {CreateServiceOk(CreateServiceRequest(destination_cluster, s, role_suffix)),
                  CreateServiceOkNothing} \cup {Err(e) : e \in RemoteErrors}

UpdateResponses(service) ==
    IF service.service_name = None THEN {UpdateServiceOkNothing}
    ELSE {UpdateServiceOk(service,
             UpdateServiceRequest(source_cluster, unwrap(service.service_name),
                                  unwrap(modification))),
          UpdateServiceOkNothing}

AnyUpdateOutcomes ==
    IF pc = "update" /\ to_update /= << >>
    THEN {<<r, FALSE>> : r \in UpdateResponses(Head(to_update))} \cup Failures
    ELSE {}

\* One call of a create_service: r is what the function does with the
\* template at the head of source_only.
create_service_called(r, response) ==
    /\ pc = "create"
    /\ from_service' = IF r.sent = None THEN from_service ELSE Some(Head(source_only))
    /\ source_only' = Tail(source_only)
    /\ requests' = IF r.sent = None THEN requests ELSE Append(requests, unwrap(r.sent))
    /\ remote' = remote_after(remote, destination_cluster, r.sent, response)
    /\ result' = Some(r.ret)
    /\ pc' = "done"
    /\ UNCHANGED <<retry_vars, classify_vars, audit_vars, update_vars, args_vars, read_vars, diff, stdout, faults, run, history>>

services_create_service_call(response) ==
    /\ command = "services::create_service"
    /\ create_service_called(
        create_service(destination_cluster, Head(source_only), role_suffix, response),
        response)

main_create_service_call(response) ==
    /\ command = "main::create_service"
    /\ create_service_called(
        main_create_service(destination_cluster, Head(source_only), role_suffix, response),
        response)

CreateInit ==
    /\ RetryIdle
    /\ command \in {"services::create_service", "main::create_service",
                    "services::update_service"}
    /\ source_cluster = "A"
    /\ destination_cluster \in Clusters
    /\ role_suffix \in RoleSuffixes
    /\ modification = IF command = "services::update_service" THEN Some(DesiredCount(5))
                      ELSE None
    /\ remote = [c \in Clusters |-> << >>]
    /\ pc = IF command = "services::update_service" THEN "update" ELSE "create"
    /\ reads = << >>
    /\ token = None
    /\ service_arns = << >>
    /\ next_arn = 1
    /\ described = << >>
    /\ inventories = << >>
    /\ pages = << >>
    /\ retries = 0
    /\ last_response = None
    /\ diff = None
    /\ \E t \in Templates :
          /\ source_only = IF command = "services::update_service" THEN << >> ELSE <<t>>
          /\ to_update = IF command = "services::update_service" THEN <<t>> ELSE << >>
    /\ from_service = None
    /\ requests = << >>
    /\ stdout = None
    /\ result = None
    /\ faults = 0
    /\ run = 1
    /\ history = << >>
    /\ audited = None
    /\ to_audit = << >>
    /\ container_definitions = None
    /\ images = << >>
    /\ target_groups = << >>
    /\ next_lookup = 1
    /\ ClassifyIdle

CreateNext ==
    \/ \E response \in AnyCreateResponses : services_create_service_call(response)
    \/ \E response \in AnyCreateResponses : main_create_service_call(response)
    \/ \E x \in AnyUpdateOutcomes : update_service_call(x[1], x[2])

SpecCreate == CreateInit /\ [][CreateNext]_vars

(***************************************************************************)
(* audit_service called on one service, with any answer of the control     *)
(* plane, the registry and the load balancer service.                      *)
(***************************************************************************)
Image == <<"registry", "/", "web", ":", "v1">>
ImageWithoutTag == <<"registry", "/", "web">>
ContainerDefinitions == {[image |-> i] : i \in {None, Some(Image), Some(ImageWithoutTag)}}

AuditedServices ==
    {Service(Some("web"), c[1], c[2], td, lbs, None) :
        c \in {<<None, None>>, <<Some(2), None>>, <<Some(2), Some(1)>>, <<None, Some(1)>>,
               <<Some(1), Some(1)>>},
        td \in {None, Some("td-web")},
        lbs \in {None, Some(<< >>),
                 Some(<<LoadBalancer(None), LoadBalancer(Some("tg-1"))>>),
                 Some(<<LoadBalancer(Some("tg-1")), LoadBalancer(Some("tg-2"))>>)}}

AnyTaskDefinitionResponses ==
    {[task_definition |-> None], [task_definition |-> Some([container_definitions |-> None])]}
    \cup {[task_definition |-> Some([container_definitions |-> Some(cds)])] :
             cds \in SeqsUpTo(ContainerDefinitions, MaxContainers)}

AnyTaskDefinitionOutcomes ==
    IF pc = "task_definition"
    THEN {<<Ok(res), FALSE>> : res \in AnyTaskDefinitionResponses} \cup Failures
    ELSE {}

AnyImagesOutcomes ==
    IF pc = "images"
    THEN {Ok([image_details |-> d]) : d \in {None, Some(<< >>), Some(<<"detail">>)}}
         \cup {Err(e) : e \in {Unknown(ThrottlingException), Unknown(<<"RepositoryNotFound">>)}}
    ELSE {}

\* Errors of DescribeTargetGroups: an XML body with the throttling code, one
\* with another code, the throttling body of the ECS calls, a transport error.
ElbErrors ==
    {Unknown(<<"<Error>", "<Code>Throttling</Code>", "</Error>">>),
     Unknown(<<"<Error>", "<Code>TargetGroupNotFound</Code>", "</Error>">>),
     Unknown(ThrottlingException),
     [variant |-> "HttpDispatch", body |-> << >>]}

AnyTargetGroupsOutcomes ==
    IF pc = "target_groups"
    THEN {<<Ok([target_groups |-> t]), FALSE>> : t \in {None, Some(<< >>), Some(<<"tg">>)}}
         \cup {<<Err(e), TRUE>> : e \in ElbErrors}
         \cup {<<Err(e), FALSE>> : e \in {x \in ElbErrors :
                  retries < MaxFaults \/ ~retryable(classify_target_groups(x))}}
    ELSE {}

AuditInit ==
    /\ RetryIdle
    /\ command = "audit_service"
    /\ source_cluster = "A"
    /\ destination_cluster = "A"
    /\ role_suffix = None
    /\ modification = None
    /\ remote = [c \in Clusters |-> << >>]
    /\ pc = "task_definition"
    /\ reads = << >>
    /\ token = None
    /\ service_arns = << >>
    /\ next_arn = 1
    /\ described = << >>
    /\ inventories = << >>
    /\ pages = << >>
    /\ retries = 0
    /\ last_response = None
    /\ diff = None
    /\ source_only = << >>
    /\ from_service = None
    /\ requests = << >>
    /\ stdout = None
    /\ result = None
    /\ faults = 0
    /\ run = 1
    /\ history = << >>
    /\ to_update = << >>
    /\ audited \in {Some(service) : service \in AuditedServices}
    /\ to_audit = << >>
    /\ container_definitions = None
    /\ images = << >>
    /\ target_groups = << >>
    /\ next_lookup = 1
    /\ ClassifyIdle

AuditNext ==
    \/ \E x \in AnyTaskDefinitionOutcomes : describe_task_definition_call(x[1], x[2])
    \/ \E o \in AnyImagesOutcomes : describe_images_call(o)
    \/ \E x \in AnyTargetGroupsOutcomes : describe_target_groups_call(x[1], x[2])
    \/ audit_service_return

SpecAudit == AuditInit /\ [][AuditNext]_vars

(***************************************************************************)
(* The commands that only read: the Info, Audit and Compare arms of main   *)
(* (main.rs:94-145) against an honest control plane; the task definitions  *)
(* and the registry may answer anything.                                   *)
(***************************************************************************)
MainTaskDefinitionOutcomes ==
    IF pc = "ecr_images"
    THEN {<<Ok(res), FALSE>> : res \in AnyTaskDefinitionResponses} \cup Failures
    ELSE {}

MainImagesOutcomes ==
    IF pc = "ecr_images_loop"
    THEN {Ok([image_details |-> d]) : d \in {None, Some(<< >>), Some(<<"detail">>)}}
         \cup (IF faults < MaxFaults
               THEN {Err(e) : e \in {Unknown(ThrottlingException),
                                     Unknown(<<"RepositoryNotFound">>)}}
               ELSE {})
    ELSE {}

QueriesInit ==
    /\ RetryIdle
    /\ command \in {"info", "audit", "compare"}
    /\ source_cluster = "A"
    /\ destination_cluster \in (IF command = "compare" THEN Clusters ELSE {source_cluster})
    /\ role_suffix = None
    /\ modification = None
    /\ remote \in {[c \in Clusters |-> IF c = "A" THEN a ELSE b] :
                     a \in SeqsUpTo(IF command = "audit" THEN {Web, Nameless} ELSE ServicePool,
                                    MaxSource),
                     b \in IF command = "compare" THEN SeqsUpTo(ServicePool, MaxDestination)
                           ELSE {<< >>}}
    /\ CommandStart

QueriesNext ==
    \/ \E x \in HonestListOutcomes : list_services_page(x[1], x[2])
    \/ \E x \in HonestDescribeOutcomes : describe_service_call(x[1], x[2])
    \/ describe_services_return
    \/ \E x \in MainTaskDefinitionOutcomes : main_ecr_images_call(x[1], x[2])
    \/ \E o \in MainImagesOutcomes : main_ecr_images_loop(o)

SpecQueries == QueriesInit /\ [][QueriesNext]_vars

(***************************************************************************)
(* One run of describe_services (the Info arm), compare or sync to its     *)
(* end.  The command is one sequential thread and every remote call        *)
(* returns, so the run keeps taking the step that is enabled; the listing  *)
(* has finitely many pages and calls fail at most MaxFaults times.         *)
(***************************************************************************)
TerminationInit ==
    /\ RetryIdle
    /\ command \in {"info", "compare", "sync"}
    /\ source_cluster = "A"
    /\ destination_cluster \in (IF command = "info" THEN {source_cluster} ELSE Clusters)
    /\ role_suffix = None
    /\ modification = None
    /\ remote \in {[c \in Clusters |-> IF c = "A" THEN a ELSE b] :
                     a \in SeqsUpTo(ServicePool, MaxSource),
                     b \in IF command = "info" THEN {<< >>}
                           ELSE SeqsUpTo(ServicePool, MaxDestination)}
    /\ CommandStart

TerminationNext ==
    \/ \E x \in HonestListOutcomes : list_services_page(x[1], x[2])
    \/ \E x \in HonestDescribeOutcomes : describe_service_call(x[1], x[2])
    \/ describe_services_return
    \/ \E response \in CreateResponses : sync_create(response)

SpecTermination ==
    TerminationInit /\ [][TerminationNext]_vars /\ WF_vars(TerminationNext)

(***************************************************************************)
(* The update command on one cluster: describe_services, then              *)
(* update_service for each service described.                              *)
(***************************************************************************)
HonestUpdateOutcomes ==
    IF pc = "update" /\ to_update /= << >>
    THEN LET service == Head(to_update)
         IN (IF service.service_name = None THEN {<<UpdateServiceOkNothing, FALSE>>}
             ELSE {<<UpdateServiceOk(service,
                        UpdateServiceRequest(source_cluster, unwrap(service.service_name),
                                             unwrap(modification))), FALSE>>})
            \cup Failures
    ELSE {}

UpdateInit ==
    /\ RetryIdle
    /\ command = "update"
    /\ source_cluster = "A"
    /\ destination_cluster = "A"
    /\ role_suffix = None
    /\ modification \in {Some(DesiredCount(count)) : count \in {0, 5}}
    /\ remote \in {[c \in Clusters |-> IF c = "A" THEN a ELSE << >>] :
                     a \in SeqsUpTo(ServicePool, MaxServices)}
    /\ CommandStart

UpdateNext ==
    \/ \E x \in HonestListOutcomes : list_services_page(x[1], x[2])
    \/ \E x \in HonestDescribeOutcomes : describe_service_call(x[1], x[2])
    \/ describe_services_return
    \/ \E x \in HonestUpdateOutcomes : update_service_call(x[1], x[2])

SpecUpdate == UpdateInit /\ [][UpdateNext]_vars

(***************************************************************************)
(* The map_err closures of the retried calls, each applied to one error:   *)
(* list_services (services.rs:62-71), describe_service (95-104),           *)
(* update_service (244-253), service_ecr_images (292-299) and              *)
(* service_target_groups (395-408).                                        *)
(***************************************************************************)
EcsOperations == {"ListServices", "DescribeServices", "DescribeTaskDefinition", "UpdateService"}
Operations == EcsOperations \cup {"DescribeTargetGroups"}

ErrorBodies ==
    {ThrottlingException,
     ThrottlingException \o <<"\n">>,
     <<"error: ">> \o ThrottlingException,
     ThrottlingCode,
     <<"<Error>", "<Code>Throttling</Code>", "</Error>">>,
     <<"<Error>", "<Code>AccessDenied</Code>", "</Error>">>,
     << >>}

AnyErrors ==
    [variant : {"Unknown", "HttpDispatch", "Credentials", "Validation"}, body : ErrorBodies]

map_err(op, e) ==
    IF op = "DescribeTargetGroups" THEN classify_target_groups(e) ELSE classify(e)

map_err_call ==
    /\ command = "map_err"
    /\ classified = None
    /\ classified' = Some(map_err(unwrap(operation), unwrap(remote_error)))
    /\ UNCHANGED <<retry_vars, args_vars, pc, read_vars, sync_vars, out_vars, env_vars,
                   update_vars, audit_vars, operation, remote_error>>

ClassifyInit ==
    /\ RetryIdle
    /\ command = "map_err"
    /\ source_cluster = "A"
    /\ destination_cluster = "A"
    /\ role_suffix = None
    /\ modification = None
    /\ remote = [c \in Clusters |-> << >>]
    /\ CommandStart
    /\ operation \in {Some(op) : op \in Operations}
    /\ remote_error \in {Some(e) : e \in AnyErrors}
    /\ classified = None

ClassifyNext == map_err_call

SpecClassify == ClassifyInit /\ [][ClassifyNext]_vars

RetryNext == \E d_op \in 0..MaxAdvance, d_sleep \in 0..MaxAdvance : retry_log(d_op, d_sleep)

CommandIdle ==
    /\ command = "retry_log"
    /\ source_cluster = "A"
    /\ destination_cluster = "A"
    /\ role_suffix = None
    /\ modification = None
    /\ remote = [c \in Clusters |-> << >>]
    /\ CommandStart

RetryInit == RetryStart /\ CommandIdle

SpecRetry == RetryInit /\ [][RetryNext]_vars

(***************************************************************************)
(* Claims about the commands, checked under Spec.                          *)
(***************************************************************************)
LookupResults == {<< >>, <<Ok("detail")>>, <<Err(Error("lookup", None, None))>>}

\* C1: sync issues a CreateService request only for a service whose audit
\* returned the empty list: the template of every request sync has sent is a
\* service for which audit_service can return [] at all.
C1_CreateOnlyHealthy ==
    (command = "sync" /\ requests /= << >> /\ Last(requests).op = "CreateService") =>
        \E ecr_images \in LookupResults, elb_target_groups \in LookupResults :
            audit_service(ecr_images, elb_target_groups, unwrap(from_service)) = {}

\* The positions of the descriptors of src whose name is not a name of dst.
SourceOnlyPositions(src, dst) ==
    {i \in 1..Len(src) : \A j \in 1..Len(dst) : dst[j].service_name /= src[i].service_name}

NthOf(P, k) == CHOOSE i \in P : Cardinality({j \in P : j < i}) = k - 1

\* C2: the diff is exactly the descriptors of the source inventory whose name
\* does not occur among the names of the destination inventory, in the
\* source's enumeration order; the compare command reads both inventories
\* from the clusters and prints a Total equal to the length of the diff.
C2_DiffIsSourceMinusDestination ==
    diff /= None =>
        LET src == inventories[1]
            dst == inventories[2]
            P == SourceOnlyPositions(src, dst)
            d == unwrap(diff)
        IN /\ Len(d) = Cardinality(P)
           /\ \A k \in 1..Len(d) : d[k] = src[NthOf(P, k)]
           /\ command = "compare" =>
                /\ src = remote[source_cluster]
                /\ dst = remote[destination_cluster]
                /\ pc = "done"
                /\ unwrap(stdout).total = Len(d)
                /\ unwrap(stdout).names = [k \in 1..Len(d) |-> d[k].service_name]

C2_Witness ==
    /\ command = "compare"
    /\ pc = "done"
    /\ destination_cluster = "B"
    /\ remote["A"] = <<Web, Worker>>
    /\ remote["B"] = <<Worker>>
    /\ diff = Some(<<Web>>)
    /\ unwrap(stdout).total = 1

C8_DiffWithItselfEmpty ==
    (diff /= None /\ source_cluster = destination_cluster) => unwrap(diff) = << >>

C8_Witness ==
    /\ command = "compare"
    /\ source_cluster = destination_cluster
    /\ remote[source_cluster] = <<Nameless, Web>>
    /\ diff = Some(<< >>)

CreateRequests == SelectSeq(requests, LAMBDA r : r.op = "CreateService")

RemoteCreationFailed ==
    /\ command = "sync"
    /\ diff /= None
    /\ result /= None
    /\ unwrap(result).kind = "Err"
    /\ unwrap(result).err.cause /= None

\* C14 as stated: a remote failure of one CreateService call never aborts
\* the batch: sync does not end with the error of a CreateService call.
C14_AsStated == ~RemoteCreationFailed

\* C14 (amended): in sync the CreateService requests follow the diff in
\* order; when the remote CreateService call for one source-only service
\* fails, sync ends with that error, the failed service and every remaining
\* one stay uncreated, and no further request is issued in that run.
C14_SyncFailFast ==
    /\ []((command = "sync" /\ diff /= None) =>
            LET d == unwrap(diff)
            IN /\ Len(CreateRequests) <= Len(d)
               /\ \A i \in 1..Len(CreateRequests) :
                     CreateRequests[i].service_name = unwrap(d[i].service_name)
               /\ RemoteCreationFailed =>
                     /\ pc = "done"
                     /\ CreateRequests /= << >>
                     /\ source_only = SubSeq(d, Len(CreateRequests), Len(d))
                     /\ \A i \in 1..Len(source_only) : \A j \in 1..Len(remote[destination_cluster]) :
                           Len(CreateRequests) = 1 =>
                              remote[destination_cluster][j].service_name
                                 /= source_only[i].service_name)
    /\ [][/\ (RemoteCreationFailed /\ run' = run) => requests' = requests
          /\ (command = "sync" /\ pc = "create" /\ requests' /= requests /\ remote' = remote) =>
                (pc' = "done" /\ RemoteCreationFailed')]_vars

C14_Witness ==
    /\ RemoteCreationFailed
    /\ Len(unwrap(diff)) = 2
    /\ Len(CreateRequests) = 1
    /\ Len(source_only) = 2
    /\ remote[destination_cluster] = << >>

C7_RoleInference ==
    (requests /= << >> /\ Last(requests).op = "CreateService") =>
        LET t == unwrap(from_service)
            bindings == IF t.load_balancers = None THEN 0 ELSE Len(unwrap(t.load_balancers))
            awsvpc == /\ t.network_configuration /= None
                      /\ unwrap(t.network_configuration).awsvpc_configuration /= None
            expected == IF role_suffix = None
                        THEN IF destination_cluster = "A" THEN "A-ECSServiceRole"
                             ELSE "B-ECSServiceRole"
                        ELSE IF destination_cluster = "A" THEN "A-Deployer" ELSE "B-Deployer"
        IN Last(requests).role = IF bindings >= 1 /\ ~awsvpc THEN Some(expected) ELSE None

C7_Witness ==
    /\ command = "services::create_service"
    /\ requests /= << >>
    /\ Last(requests).role = Some("B-ECSServiceRole")
    /\ Len(unwrap(unwrap(from_service).load_balancers)) = 2
    /\ unwrap(from_service).network_configuration = Some(NetworkConfiguration(None))

\* The template a create_service call is about to handle lacks a field the
\* request needs.
LacksPrecondition(t) ==
    t.service_name = None \/ t.desired_count = None \/ t.task_definition = None

Called == pc = "create" /\ pc' = "done"

\* C12 as stated: a template without a service name, a desired count or a
\* task-definition reference makes create_service return an error that
\* names the offending service, with no CreateService request issued and
\* the remote state unchanged.
C12_AsStated ==
    [][(Called /\ LacksPrecondition(Head(source_only))) =>
          /\ unwrap(result').kind = "Err"
          /\ unwrap(result').err.name /= None
          /\ requests' = requests
          /\ remote' = remote]_vars

\* C12 (amended): such a template makes create_service return an error with
\* no CreateService request issued and the remote state unchanged; the error
\* quotes the service's name when the desired count or the task definition
\* is missing; when the name is missing, services.rs quotes the descriptor
\* and main.rs's create_service quotes nothing.
C12_Preconditions ==
    [][(Called /\ LacksPrecondition(Head(source_only))) =>
          LET t == Head(source_only)
              e == unwrap(result').err
          IN /\ unwrap(result').kind = "Err"
             /\ requests' = requests
             /\ remote' = remote
             /\ e.cause = None
             /\ IF t.service_name = None
                THEN IF command = "main::create_service"
                     THEN e.msg = "No service name found" /\ e.name = None
                     ELSE e.msg = "No service name found for" /\ e.name = Some(t)
                ELSE /\ e.name = t.service_name
                     /\ e.msg = IF t.desired_count = None
                                THEN "No desired count found for"
                                ELSE "No task definition found for"]_vars

C12_Witness ==
    /\ command = "main::create_service"
    /\ pc = "done"
    /\ requests = << >>
    /\ unwrap(result).kind = "Err"
    /\ unwrap(result).err.msg = "No task definition found for"
    /\ unwrap(result).err.name = Some("web")

Mutating(r) == r.op \in {"CreateService", "UpdateService"}

\* C13 as stated: no CreateService or UpdateService request is ever issued
\* for a descriptor whose service_name or task_definition is absent.
C13_AsStated ==
    (requests /= << >> /\ Mutating(Last(requests))) =>
        /\ unwrap(from_service).service_name /= None
        /\ unwrap(from_service).task_definition /= None

UpdateCalled == pc = "update" /\ pc' = "done"

\* C13 (amended): a CreateService request is only issued for a descriptor
\* with a service name, a desired count and a task definition, and an
\* UpdateService request only for one with a service name; a descriptor
\* without a name makes create_service and update_service return an error
\* with no request sent.  update_service does not look at task_definition.
C13_MutatingNeedsName ==
    /\ [](\A i \in 1..Len(requests) :
            /\ Mutating(requests[i]) => unwrap(from_service).service_name /= None
            /\ requests[i].op = "CreateService" =>
                  /\ unwrap(from_service).task_definition /= None
                  /\ unwrap(from_service).desired_count /= None
                  /\ requests[i].service_name = unwrap(unwrap(from_service).service_name)
            /\ requests[i].op = "UpdateService" =>
                  /\ requests[i].service = unwrap(unwrap(from_service).service_name)
                  /\ requests[i].task_definition = None)
    /\ [][/\ (Called /\ Head(source_only).service_name = None) =>
                (unwrap(result').kind = "Err" /\ requests' = requests)
          /\ (UpdateCalled /\ Head(to_update).service_name = None) =>
                /\ unwrap(result').kind = "Err"
                /\ unwrap(result').err.name = Some(Head(to_update))
                /\ requests' = requests
          /\ (pc = "update" /\ Head(to_update).service_name /= None /\ retries = 0) =>
                (requests' /= requests /\ Last(requests').op = "UpdateService")]_vars

C13_Witness ==
    /\ command = "services::update_service"
    /\ requests /= << >>
    /\ Last(requests).op = "UpdateService"
    /\ unwrap(from_service).task_definition = None
    /\ unwrap(from_service).service_name = Some("web")
    /\ pc = "done"
    /\ unwrap(result).kind = "Ok"

(***************************************************************************)
(* Claims about audit_service and its lookups, checked under SpecAudit.    *)
(***************************************************************************)
Audited == command = "audit_service" /\ pc = "done" /\ unwrap(result).kind = "Ok"

CountOf(count) == IF count = None THEN 0 ELSE count[1]

\* C16: audit_service returns exactly the findings whose condition is true:
\* "Invalid ECR images" iff some image lookup entry is a failure, "Invalid
\* Target groups" iff some target-group lookup entry is a failure, "Less
\* than desired" iff running_count < desired_count, an absent count read as 0.
C16_AuditFindings ==
    Audited =>
        LET findings == unwrap(result).val
        IN /\ findings \subseteq
                 {"Invalid ECR images", "Invalid Target groups", "Less than desired"}
           /\ "Invalid ECR images" \in findings <=>
                 \E i \in 1..Len(images) : images[i].kind = "Err"
           /\ "Invalid Target groups" \in findings <=>
                 \E i \in 1..Len(target_groups) : target_groups[i].kind = "Err"
           /\ "Less than desired" \in findings <=>
                 CountOf(unwrap(audited).running_count)
                    < CountOf(unwrap(audited).desired_count)

C16_Witness ==
    /\ Audited
    /\ unwrap(result).val =
          {"Invalid ECR images", "Invalid Target groups", "Less than desired"}
    /\ unwrap(audited).running_count = None
    /\ unwrap(audited).desired_count = Some(2)
    /\ Len(images) = 2
    /\ images[1].kind = "Ok"
    /\ Len(target_groups) = 2

(***************************************************************************)
(* Claims about the update command, checked under SpecUpdate.              *)
(***************************************************************************)
UpdateRequests == SelectSeq(requests, LAMBDA r : r.op = "UpdateService")

ImageRequests == SelectSeq(requests, LAMBDA r : r.op = "DescribeImages")

\* What holds of every turn of the loop of service_ecr_images (C18).
C18_Step ==
    pc = "images" =>
        LET image_arn == unwrap(container_definitions)[next_lookup]
        IN /\ (pc' = "images" => next_lookup' = next_lookup + 1)
           /\ (pc' \notin {"images", "done"} =>
                 next_lookup = Len(unwrap(container_definitions)))
           /\ image_arn = None => (images' = images /\ requests' = requests)
           /\ (image_arn /= None /\ pc' /= "done") =>
                 LET o == unwrap(last_response')
                 IN /\ Len(ImageRequests') = Len(ImageRequests) + 1
                    /\ images' =
                         IF o.kind = "Err"
                         THEN Append(images, Err(Error("remote", None, Some(o.err))))
                         ELSE IF o.val.image_details = None THEN images
                         ELSE IF Len(unwrap(o.val.image_details)) >= 1
                         THEN Append(images, Ok(Last(unwrap(o.val.image_details))))
                         ELSE images

\* C18: service_ecr_images returns the empty list without any remote call
\* when the service has no task definition; otherwise each container
\* definition, in order, adds nothing when it has no image, one failure
\* entry when the registry call errors, one success entry when the call
\* returns an image detail, and nothing when the call returns none.
C18_ResolveImages ==
    /\ [](command = "audit_service" =>
            /\ unwrap(audited).task_definition = None =>
                  /\ images = << >>
                  /\ \A i \in 1..Len(requests) :
                        requests[i].op \notin {"DescribeTaskDefinition", "DescribeImages"}
            /\ ImageRequests /= << >> =>
                  (requests[1].op = "DescribeTaskDefinition" /\ container_definitions /= None)
            /\ Len(images) <= Len(ImageRequests))
    /\ [][C18_Step]_vars

C18_Witness ==
    /\ Audited
    /\ container_definitions /= None
    /\ Len(unwrap(container_definitions)) = 2
    /\ Len(ImageRequests) = 2
    /\ images = << >>
    /\ unwrap(audited).load_balancers = None
    /\ last_response = Some(Ok([image_details |-> Some(<< >>)]))
    /\ "Invalid ECR images" \notin unwrap(result).val

TargetGroupRequests == SelectSeq(requests, LAMBDA r : r.op = "DescribeTargetGroups")

\* What holds of every step of service_target_groups (C19).
C19_Step ==
    pc = "target_groups" =>
        LET target_group_arn ==
                unwrap(unwrap(audited).load_balancers)[next_lookup].target_group_arn
            last == next_lookup = Len(unwrap(unwrap(audited).load_balancers))
            moved == next_lookup' /= next_lookup \/ pc' /= pc
        IN /\ result' = None
           /\ pc' = IF moved /\ last THEN "audit" ELSE "target_groups"
           /\ (moved /\ ~last) => next_lookup' = next_lookup + 1
           /\ target_group_arn = None =>
                 (moved /\ target_groups' = target_groups /\ requests' = requests)
           /\ (target_group_arn /= None /\ ~moved) =>
                 (target_groups' = target_groups /\ retries' = retries + 1)
           /\ (target_group_arn /= None /\ moved) =>
                 LET o == unwrap(last_response')
                 IN /\ Last(requests') = DescribeTargetGroupsInput(unwrap(target_group_arn))
                    /\ target_groups' =
                         IF o.kind = "Err"
                         THEN Append(target_groups, Err(Error("remote", None, Some(o.err))))
                         ELSE IF o.val.target_groups = None THEN target_groups
                         ELSE IF Len(unwrap(o.val.target_groups)) >= 1
                         THEN Append(target_groups, Ok(Last(unwrap(o.val.target_groups))))
                         ELSE target_groups

\* C19: service_target_groups always returns a list: empty when the service
\* has no binding; otherwise each binding, in order, adds nothing when it
\* has no target-group reference, one failure entry when its lookup ends in
\* a failure (the remaining lookups still run), one success entry when the
\* lookup returns a non-empty list, and nothing when it returns an empty one.
C19_ResolveTargetGroups ==
    /\ [](command = "audit_service" =>
            /\ (unwrap(audited).load_balancers = None
                \/ unwrap(audited).load_balancers = Some(<< >>)) =>
                  (target_groups = << >> /\ TargetGroupRequests = << >> /\ pc /= "target_groups")
            /\ Len(target_groups) <= Len(TargetGroupRequests)
            /\ pc = "audit" => result = None)
    /\ [][C19_Step]_vars

C19_Witness ==
    /\ Audited
    /\ Len(target_groups) = 2
    /\ target_groups[1].kind = "Err"
    /\ target_groups[1].err.cause = Some([variant |-> "HttpDispatch", body |-> << >>])
    /\ target_groups[2] = Ok("tg")
    /\ Len(TargetGroupRequests) = 2

(***************************************************************************)
(* Claims about the error classification, checked under SpecClassify.      *)
(***************************************************************************)
\* C20: for ListServices, DescribeServices, DescribeTaskDefinition and
\* UpdateService an error is transient iff it is Unknown with a body equal to
\* the ThrottlingException text; for DescribeTargetGroups iff it is Unknown
\* with a body that contains <Code>Throttling</Code>; every other error is
\* permanent, and the error is handed on unchanged.
C20_Classification ==
    classified /= None =>
        LET e == unwrap(remote_error)
            c == unwrap(classified)
            marked ==
                IF unwrap(operation) = "DescribeTargetGroups"
                THEN \E i \in 1..Len(e.body) : e.body[i] = "<Code>Throttling</Code>"
                ELSE e.body = <<"{\"__type\":\"ThrottlingException\",\"message\":\"Rate exceeded\"}">>
        IN /\ c.kind = IF e.variant = "Unknown" /\ marked THEN "Transient" ELSE "Permanent"
           /\ c.err = e

C20_Witness ==
    /\ classified /= None
    /\ operation = Some("DescribeTargetGroups")
    /\ remote_error = Some(Unknown(<<"<Error>", "<Code>Throttling</Code>", "</Error>">>))
    /\ unwrap(classified).kind = "Transient"

(***************************************************************************)
(* Claims about throttled calls that no retry wraps, checked under         *)
(* SpecAudit.                                                              *)
(***************************************************************************)
Throttled(entry) ==
    entry.kind = "Err" /\ entry.err.cause = Some(Unknown(ThrottlingException))

\* C21: a throttled call is re-issued and never surfaced; in particular no
\* failure entry of the registry image lookup stems from a throttled
\* DescribeImages call.
C21_ThrottlingRetried == \A i \in 1..Len(images) : ~Throttled(images[i])

(***************************************************************************)
(* Claims about the commands that only read, checked under SpecQueries.    *)
(***************************************************************************)
\* The retried DescribeTaskDefinition call of the service under audit (or of
\* the one audited last) ended with an error.
TaskDefinitionFetchFailed ==
    /\ command = "audit"
    /\ inventories /= << >>
    /\ last_response /= None
    /\ unwrap(last_response).kind = "Err"

\* C22: a permanent failure of a task-definition fetch aborts the audit
\* command with an error; the service is never passed over as one without
\* broken image references.
C22_PermanentErrorsAbort ==
    TaskDefinitionFetchFailed =>
        pc = "done" /\ result /= None /\ unwrap(result).kind = "Err"

\* An image reference whose last path segment has no ':'.
Malformed(image_arn) == \A i \in 1..Len(Last(split(image_arn, "/"))) :
                            Last(split(image_arn, "/"))[i] /= ":"

\* C23: when a container definition's image reference has no ':' in its last
\* path segment, the image lookup ends with an error value or a failure
\* entry; the command is never terminated abnormally.
C23_MalformedImageDefined ==
    (/\ container_definitions /= None
     /\ \E i \in 1..Len(unwrap(container_definitions)) :
           /\ unwrap(container_definitions)[i] /= None
           /\ Malformed(unwrap(unwrap(container_definitions)[i])))
    => result /= Some(Panic)

C25_SyncRequests ==
    command = "sync" =>
        /\ \A i \in 1..Len(requests) :
              requests[i].op \in {"CreateService", "UpdateService"} =>
                 /\ requests[i].op = "CreateService"
                 /\ requests[i].cluster = Some(destination_cluster)
                 /\ destination_cluster /= source_cluster
                 /\ Len(inventories) = 2
                 /\ \A j \in 1..Len(inventories[2]) :
                       inventories[2][j].service_name /= Some(requests[i].service_name)
        /\ CreateRequests /= << >> =>
              LET P == SourceOnlyPositions(inventories[1], inventories[2])
              IN /\ Len(CreateRequests) <= Cardinality(P)
                 /\ \A k \in 1..Len(CreateRequests) :
                       Some(CreateRequests[k].service_name)
                          = inventories[1][NthOf(P, k)].service_name

C25_Witness ==
    /\ command = "sync"
    /\ pc = "done"
    /\ Len(CreateRequests) = 2
    /\ inventories[2] /= << >>
    /\ CreateRequests[1].service_name /= CreateRequests[2].service_name

\* The requests that only read.
ReadOnly(r) ==
    r.op \in {"ListServices", "DescribeServices", "DescribeTaskDefinition", "DescribeImages",
              "DescribeTargetGroups"}

\* C26: info, audit and compare issue only list, describe and lookup
\* requests, on every path, and the inventory of every cluster stays as it
\* was.
C26_ReadOnly ==
    /\ [](command \in {"info", "audit", "compare"} =>
             \A i \in 1..Len(requests) : ReadOnly(requests[i]))
    /\ [][(command \in {"info", "audit", "compare"}) => (remote' = remote)]_vars

C26_Witness ==
    /\ command = "audit"
    /\ pc = "done"
    /\ faults > 0
    /\ \E i \in 1..Len(requests) : requests[i].op = "DescribeImages"
    /\ \E i \in 1..Len(requests) : requests[i].op = "DescribeTaskDefinition"
    /\ remote[source_cluster] /= << >>

(***************************************************************************)
(* Claims about the request of update_service, checked under SpecCreate.   *)
(***************************************************************************)
\* C27: the UpdateService request of update_service names the given cluster
\* and the descriptor's service name, sets desired_count to the requested
\* count and leaves every other field unset; an attempt that follows a
\* throttled one sends that same request again.
C27_UpdateOnlyCount ==
    /\ [](command = "services::update_service" =>
            /\ \A i \in 1..Len(requests) :
                  requests[i] =
                     [op |-> "UpdateService",
                      cluster |-> Some(source_cluster),
                      service |-> unwrap(unwrap(from_service).service_name),
                      desired_count |-> Some(unwrap(modification).count),
                      deployment_configuration |-> None,
                      force_new_deployment |-> None,
                      health_check_grace_period_seconds |-> None,
                      network_configuration |-> None,
                      platform_version |-> None,
                      task_definition |-> None]
            /\ (pc = "update" /\ retries > 0) =>
                  /\ Len(requests) = 1
                  /\ from_service = Some(Head(to_update)))
    /\ [][(command = "services::update_service" /\ retries > 0) =>
             (requests' = requests /\ modification' = modification)]_vars

C27_Witness ==
    /\ command = "services::update_service"
    /\ pc = "done"
    /\ faults > 0
    /\ unwrap(result).kind = "Ok"
    /\ Len(requests) = 1
    /\ requests[1].desired_count = Some(5)

(***************************************************************************)
(* Claims about the inventory reader, checked under SpecInventory.         *)
(***************************************************************************)
ListRequests == SelectSeq(requests, LAMBDA r : r.op = "ListServices")

RECURSIVE Identifiers(_)
Identifiers(ps) ==
    IF ps = << >> THEN << >>
    ELSE Identifiers(SubSeq(ps, 1, Len(ps) - 1))
         \o (IF Last(ps).service_arns = None THEN << >> ELSE Last(ps).service_arns[1])

\* C9: the first ListServices request carries the empty token and each later
\* one the token of the page before it; no request follows a page without a
\* token; the identifiers accumulated are those of the pages fetched, in
\* request order, duplicates kept, a page without a list adding nothing.
C9_Pagination ==
    inventories = << >> =>
        /\ \A i \in 1..Len(ListRequests) :
              ListRequests[i].next_token =
                  IF i = 1 THEN Some("") ELSE pages[i - 1].next_token
        /\ Len(pages) <= Len(ListRequests)
        /\ Len(ListRequests) <= Len(pages) + 1
        /\ \A i \in 1..(Len(pages) - 1) : pages[i].next_token /= None
        /\ (pages /= << >> /\ Last(pages).next_token = None) =>
              (pc /= "list" /\ Len(ListRequests) = Len(pages))
        /\ pc = "describe" => (pages /= << >> /\ Last(pages).next_token = None)
        /\ service_arns = Identifiers(pages)

C9_Witness ==
    /\ pc = "describe"
    /\ Len(pages) = 3
    /\ pages[1].next_token = Some("t1")
    /\ pages[2].next_token = Some("t2")
    /\ pages[2].service_arns = None
    /\ service_arns = <<"arn1", "arn1">>
    /\ ListRequests[3].next_token = Some("t2")

DescribeRequests == SelectSeq(requests, LAMBDA r : r.op = "DescribeServices")

Failed == result /= None /\ unwrap(result).kind /= "Ok"

\* What holds in every state of describe_services (C11).
C11_State ==
    /\ \A i \in 1..Len(requests) : \A j \in i..Len(requests) :
          requests[i].op = "DescribeServices" => requests[j].op = "DescribeServices"
    /\ Failed => (pc = "done" /\ inventories = << >> /\ stdout = None)
    /\ inventories = << >> =>
          /\ DescribeRequests /= << >> => (pages /= << >> /\ Last(pages).next_token = None)
          /\ Len(DescribeRequests) <= Len(service_arns)
          /\ \A i \in 1..Len(DescribeRequests) :
                DescribeRequests[i].services = <<service_arns[i]>>
          /\ Len(described) <= Len(DescribeRequests)
          /\ Len(DescribeRequests) <= Len(described) + 1
          /\ (Failed /\ DescribeRequests /= << >>) =>
                Len(DescribeRequests) = Len(described) + 1
    /\ inventories /= << >> =>
          (~Failed /\ Len(inventories[1]) = Len(DescribeRequests))

\* What holds of every step of describe_services (C11).
C11_Step ==
    /\ Failed => requests' = requests
    /\ (described' /= described /\ described' /= << >>) =>
          /\ last_response' /= None
          /\ unwrap(last_response').services /= None
          /\ described' = Append(described, Last(unwrap(unwrap(last_response').services)))
          /\ Last(DescribeRequests').services = <<service_arns[Len(described')]>>
    /\ inventories' /= inventories =>
          /\ inventories' = Append(inventories, described)
          /\ Len(described) = Len(service_arns)
          /\ requests' = requests

\* C11: describe_services completes the listing first, then describes the
\* listed names one at a time in listing order; the first failure ends the
\* call with an error, no describe request for a later name and no partial
\* list; on success the list has one descriptor per listed name, in order.
C11_DescribeServicesFailFast == []C11_State /\ [][C11_Step]_vars

C11_Witness ==
    /\ pc = "done"
    /\ Failed
    /\ unwrap(result).kind = "Err"
    /\ Len(service_arns) = 3
    /\ described = <<Web>>
    /\ Len(DescribeRequests) = 2
    /\ inventories = << >>

\* C10: describe_service returns an error value, and no further remote call
\* is made, whenever the DescribeServices response has a failure record or no
\* service descriptor (list absent or empty); it returns a descriptor only
\* when there is no failure record and at least one descriptor.
C10_DescribeErrors ==
    last_response /= None =>
        LET res == unwrap(last_response)
            has_failures == res.failures /= None /\ unwrap(res.failures) /= << >>
            no_descriptor == res.services = None \/ unwrap(res.services) = << >>
        IN IF has_failures \/ no_descriptor
           THEN pc = "done" /\ result /= None /\ unwrap(result).kind = "Err"
           ELSE described /= << >> /\ Last(described) = Last(unwrap(res.services))

(***************************************************************************)
(* Claims about retry_log, checked under SpecRetry.                        *)
(***************************************************************************)
\* The operation fails transiently on its first N invocations and succeeds on
\* invocation N+1.
FailsThenSucceeds(N) ==
    /\ N < Len(op_script)
    /\ \A k \in 1..N : op_script[k].kind = "Transient"
    /\ op_script[N + 1].kind = "Ok"

ErrorsOf(n) == [k \in 1..n |-> op_script[k].err]

\* C4 as stated: for every N, an operation that fails transiently N times and
\* then succeeds is invoked exactly N+1 times, retry_log returns the success
\* value and exactly N retry messages were logged.
C4_AsStated ==
    retry_pc = "returned" =>
        \A N \in 0..(Len(op_script) - 1) :
            FailsThenSucceeds(N) =>
                /\ attempts = N + 1
                /\ retry_result = Some(op_script[N + 1])
                /\ Len(notified) = N

\* C4 amended: for such an operation retry_log either makes exactly N+1
\* invocations, returns the success value and has logged exactly the N
\* transient errors in order (one before each next invocation), or it gave up
\* at the k-th failure (k <= N) because the elapsed time had passed the
\* backoff's max_elapsed_time, returning that transient error after k
\* invocations and k-1 messages.
C4_RetrySuccess ==
    /\ retry_pc = "running" => Len(notified) = attempts
    /\ retry_pc = "returned" =>
        \A N \in 0..(Len(op_script) - 1) :
            FailsThenSucceeds(N) =>
                \/ /\ attempts = N + 1
                   /\ retry_result = Some(op_script[N + 1])
                   /\ notified = ErrorsOf(N)
                \/ /\ attempts <= N
                   /\ elapsed > MaxElapsedTime
                   /\ retry_result = Some(op_script[attempts])
                   /\ notified = ErrorsOf(attempts - 1)

C4_Witness ==
    /\ retry_pc = "returned"
    /\ FailsThenSucceeds(2)
    /\ attempts = 3
    /\ retry_result = Some(op_script[3])
    /\ Len(notified) = 2

\* C5: a permanent error from any invocation is returned as is, with no
\* further invocation and no retry message for it; a permanent error on the
\* first invocation is returned after exactly one attempt.
C5_PermanentReturned ==
    \A k \in 1..attempts :
        op_script[k].kind = "Permanent" =>
            /\ k = attempts
            /\ retry_pc = "returned"
            /\ retry_result = Some(op_script[k])
            /\ notified = ErrorsOf(k - 1)

C5_Witness ==
    /\ retry_pc = "returned"
    /\ attempts = 2
    /\ op_script[2].kind = "Permanent"
    /\ op_script[3].kind = "Ok"

\* C6 as stated: retry_log never returns to its caller while the most recent
\* outcome is a transient failure.
C6_AsStated ==
    retry_pc = "returned" => op_script[attempts].kind \in {"Ok", "Permanent"}

\* C6 amended: retry_log keeps invoking the operation while its outcomes are
\* transient, whatever their number, and returns with a transient failure as
\* the most recent outcome only when the time elapsed since it started has
\* passed the backoff policy's max_elapsed_time; it then returns that error.
C6_GivesUpOnlyAfterMaxElapsed ==
    /\ \A k \in 1..(attempts - 1) : op_script[k].kind = "Transient"
    /\ (retry_pc = "running" /\ attempts > 0) => op_script[attempts].kind = "Transient"
    /\ (retry_pc = "returned" /\ op_script[attempts].kind = "Transient") =>
            /\ elapsed > MaxElapsedTime
            /\ retry_result = Some(op_script[attempts])

C6_Witness ==
    /\ retry_pc = "returned"
    /\ op_script[attempts].kind = "Transient"
    /\ attempts < Len(op_script)
    /\ elapsed > MaxElapsedTime

====
